---- MODULE Spec2Model ----
(***************************************************************************)
(* Model of the personal library manager (src/app.py): the LibraryManager  *)
(* catalog store, its JSON persistence, and the add / remove flows of the  *)
(* Streamlit page that drive it.                                           *)
(*                                                                         *)
(* Text is a sequence of one-character strings.  A book is the dict built  *)
(* by add_book.  The persisted file is a JSON document: a list of objects, *)
(* each an ordered list of <<key, lexeme>> members, a lexeme being the     *)
(* characters json.dump writes for the value.                              *)
(***************************************************************************)
EXTENDS Integers, Sequences, FiniteSets, TLC

\* ------------------------------------------------------------------ bounds
MaxBooks == 3
MaxDay == 2
MaxFailures == 1

VARIABLES
    library,    \* self.library: the ordered list of book dicts
    file,       \* library.txt on disk
    today,      \* the day of the month datetime.now() falls on
    op,         \* name of the operation that ran last
    arg,        \* its input
    ret,        \* its return value
    results,    \* the list object the last query returned
    saved,      \* outcome of the save_library call made by the last step
    lastSave,   \* outcome of the most recent save_library call
    failures    \* number of failed saves so far

vars == <<library, file, today, op, arg, ret, results, saved, lastSave, failures>>

\* -------------------------------------------------------------------- text
Quote == "\""
Backslash == "\\"

\* str.lower() on the characters the model uses
Lower(c) ==
    CASE c = "A" -> "a"
      [] c = "B" -> "b"
      [] OTHER -> c

LowerText(s) == [i \in 1..Len(s) |-> Lower(s[i])]

\* Python's `needle in haystack` on str
Contains(haystack, needle) ==
    \E k \in 0..(Len(haystack) - Len(needle)) :
        \A i \in 1..Len(needle) : haystack[k + i] = needle[i]

DigitChars == <<"0", "1", "2", "3", "4", "5", "6", "7", "8", "9">>

Digit(k) == DigitChars[k + 1]

RECURSIVE Digits(_)
Digits(n) == IF n < 10 THEN <<Digit(n)>> ELSE Digits(n \div 10) \o <<Digit(n % 10)>>

\* datetime.now().strftime("%Y-%m-%d"): zero-padded fields joined by dashes
Now == [year |-> 2026, month |-> 11, day |-> today]

Pad2(n) == <<Digit(n \div 10), Digit(n % 10)>>

Strftime(now) == Digits(now.year) \o <<"-">> \o Pad2(now.month) \o <<"-">> \o Pad2(now.day)

\* ------------------------------------------------------------------- store
NewBook(title, author, year, genre, read_status, date) ==
    [title |-> title, author |-> author, year |-> year, genre |-> genre,
     read |-> read_status, date_added |-> date]

\* add_book that turns away an empty title, as the add form does
add_book_RejectsEmptyTitle(lib, title, author, year, genre, read_status, date) ==
    IF title = <<>>
    THEN <<lib, NewBook(title, author, year, genre, read_status, date)>>
    ELSE <<Append(lib, NewBook(title, author, year, genre, read_status, date)),
           NewBook(title, author, year, genre, read_status, date)>>

\* add_book: <<new list, the dict returned>>
add_book(lib, title, author, year, genre, read_status, date) ==
    <<Append(lib, NewBook(title, author, year, genre, read_status, date)),
      NewBook(title, author, year, genre, read_status, date)>>

\* pop that closes the gap one position early
Pop_ShiftsEarly(lib, index) == [j \in 1..(Len(lib) - 1) |-> IF j < index THEN lib[j] ELSE lib[j + 1]]

\* list.pop(index) for a zero-based index in range: the list that is left
Pop(lib, index) == [j \in 1..(Len(lib) - 1) |-> IF j <= index THEN lib[j] ELSE lib[j + 1]]

\* remove_book without the lower bound: a negative index counts from the end
remove_book_NoLowerBound(lib, index) ==
    IF index < Len(lib) /\ Len(lib) + index >= 0
    THEN LET at == IF index < 0 THEN Len(lib) + index ELSE index
         IN  <<Pop(lib, at), TRUE, lib[at + 1].title>>
    ELSE <<lib, FALSE, <<>>>>

\* remove_book: <<new list, success, title>>
remove_book(lib, index) ==
    IF 0 <= index /\ index < Len(lib)
    THEN <<Pop(lib, index), TRUE, lib[index + 1].title>>
    ELSE <<lib, FALSE, <<>>>>

\* search_by_title that lowers the titles but not the query
search_by_title_RawQuery(lib, title) ==
    [alias |-> FALSE,
     val |-> SelectSeq(lib, LAMBDA book : Contains(LowerText(book.title), title))]

\* search_by_title / search_by_author: a new list, built by a comprehension
search_by_title(lib, title) ==
    [alias |-> FALSE,
     val |-> SelectSeq(lib, LAMBDA book : Contains(LowerText(book.title), LowerText(title)))]

search_by_author(lib, author) ==
    [alias |-> FALSE,
     val |-> SelectSeq(lib, LAMBDA book : Contains(LowerText(book.author), LowerText(author)))]

\* the "All Genres" entry of the genre filter
AllGenres == <<"*">>

\* filter_by_genre: the list itself for "All Genres", a new list otherwise
filter_by_genre(lib, genre) ==
    IF genre = AllGenres
    THEN [alias |-> TRUE, val |-> lib]
    ELSE [alias |-> FALSE, val |-> SelectSeq(lib, LAMBDA book : book.genre = genre)]

\* get_all_genres, as the set of genres present
get_all_genres(lib) == {lib[i].genre : i \in 1..Len(lib)}

\* what a list object handed to a caller shows when it is read now
Deref(r) == IF r.alias THEN library ELSE r.val

\* a list object held by a caller: where it came from and what it showed then
Held(r, from, query) == [alias |-> r.alias, val |-> r.val, from |-> from, query |-> query]

NoResults == Held([alias |-> FALSE, val |-> <<>>], "none", <<>>)

\* ------------------------------------------------------------------ floats
\* A natural number of any size is its binary digits, least significant
\* first, without high zeros.  A float is m * 2^e with m such a number, odd
\* (or empty for zero), of at most MantissaBits digits: an IEEE binary64.
MantissaBits == 53

RECURSIVE NatBits(_)
NatBits(n) == IF n = 0 THEN <<>> ELSE <<n % 2>> \o NatBits(n \div 2)

\* bits * k + carry, digit by digit: the low Len(bits) digits and the carry out
RECURSIVE MulDigits(_, _, _)
MulDigits(bits, k, carry) ==
    IF Len(bits) = 0 THEN [low |-> <<>>, carry |-> carry]
    ELSE IF Len(bits) = 1
         THEN [low |-> <<(bits[1] * k + carry) % 2>>, carry |-> (bits[1] * k + carry) \div 2]
         ELSE LET half == Len(bits) \div 2
                  lo == MulDigits(SubSeq(bits, 1, half), k, carry)
                  hi == MulDigits(SubSeq(bits, half + 1, Len(bits)), k, lo.carry)
              IN  [low |-> lo.low \o hi.low, carry |-> hi.carry]

MulSmall(bits, k) == MulDigits(bits, k, 0).low \o NatBits(MulDigits(bits, k, 0).carry)

\* bits + 1: the low run of ones turns to zeros, the digit above it to one
Inc(bits) ==
    LET zeros == {i \in 1..Len(bits) : bits[i] = 0}
        first == IF zeros = {} THEN Len(bits) + 1 ELSE CHOOSE i \in zeros : \A j \in zeros : i <= j
    IN  [i \in 1..(IF zeros = {} THEN Len(bits) + 1 ELSE Len(bits)) |->
            IF i < first THEN 0 ELSE IF i = first THEN 1 ELSE bits[i]]

ShiftLeft(bits, s) == IF bits = <<>> THEN <<>> ELSE [i \in 1..s |-> 0] \o bits

\* a <= b on such numbers
BitsLeq(a, b) ==
    IF Len(a) # Len(b) THEN Len(a) < Len(b)
    ELSE \A i \in 1..Len(a) : a[i] > b[i] => \E j \in (i + 1)..Len(a) : a[j] < b[j]

\* bits * 2^e as a float: the low zeros of bits move into the exponent
Normal(bits, e) ==
    LET ones == {i \in 1..Len(bits) : bits[i] = 1}
        first == CHOOSE i \in ones : \A j \in ones : i <= j
    IN  IF ones = {} THEN [m |-> <<>>, e |-> 0]
        ELSE [m |-> SubSeq(bits, first, Len(bits)), e |-> e + first - 1]

\* round bits * 2^e (plus a non-zero tail below it when sticky) to the nearest
\* float, ties to even
RoundFloat(bits, e, sticky) ==
    IF Len(bits) <= MantissaBits THEN Normal(bits, e)
    ELSE LET drop == Len(bits) - MantissaBits
             kept == SubSeq(bits, drop + 1, Len(bits))
             half == bits[drop] = 1
             rest == sticky \/ \E i \in 1..(drop - 1) : bits[i] = 1
         IN  Normal(IF half /\ (rest \/ kept[1] = 1) THEN Inc(kept) ELSE kept, e + drop)

\* n, d scaled by powers of two until d <= n < 2d: <<n, d, power>>
RECURSIVE Scale(_, _, _)
Scale(n, d, s) ==
    IF n < d THEN Scale(2 * n, d, s - 1)
    ELSE IF n >= 2 * d THEN Scale(n, 2 * d, s + 1)
    ELSE <<n, d, s>>

\* 2^k modulo d, by repeated squaring
RECURSIVE PowMod(_, _)
PowMod(k, d) ==
    IF k = 0 THEN 1 % d
    ELSE (PowMod(k \div 2, d) * PowMod(k \div 2, d) * (IF k % 2 = 1 THEN 2 ELSE 1)) % d

\* long division of rem by d (rem < 2d): the remainder carried into step k + 1
QuotRem(rem, d, k) == IF k = 0 THEN rem ELSE 2 * ((rem * PowMod(k - 1, d)) % d)

\* the first k binary digits of rem / d, least significant first
QuotBits(rem, d, k) == [j \in 1..k |-> IF QuotRem(rem, d, k - j) >= d THEN 1 ELSE 0]

\* int / int: the correctly rounded quotient
FloatDiv(n, d) ==
    IF n = 0 THEN Normal(<<>>, 0)
    ELSE LET sc == Scale(n, d, 0)
         IN  RoundFloat(QuotBits(sc[1], sc[2], MantissaBits + 1),
                        sc[3] - MantissaBits,
                        QuotRem(sc[1], sc[2], MantissaBits + 1) # 0)

\* float * int, the int small enough to be exact as a float
FloatMul(x, k) == RoundFloat(MulSmall(x.m, k), x.e, FALSE)

\* the percentage with floor division in place of true division
PercentageRead_FloorDivision(read_books, total_books) ==
    IF total_books > 0 THEN Normal(NatBits((read_books \div total_books) * 100), 0) ELSE Normal(<<>>, 0)

\* `(read_books / total_books) * 100`, or the initial 0
PercentageRead(read_books, total_books) ==
    IF total_books > 0 THEN FloatMul(FloatDiv(read_books, total_books), 100) ELSE Normal(<<>>, 0)

\* get_statistics: the dict it returns
get_statistics(lib) ==
    LET total_books == Len(lib)
        read_books == Cardinality({i \in 1..Len(lib) : lib[i].read})
    IN  [total |-> total_books, read |-> read_books,
         unread |-> total_books - read_books,
         percentage |-> PercentageRead(read_books, total_books)]

\* -------------------------------------------------------------------- JSON
\* escaping that leaves a backslash as it is
RECURSIVE Escape_QuoteOnly(_)
Escape_QuoteOnly(s) ==
    IF s = <<>> THEN <<>>
    ELSE (IF Head(s) = Quote THEN <<Backslash, Head(s)>> ELSE <<Head(s)>>)
         \o Escape_QuoteOnly(Tail(s))

\* json.dump of a str: quotes around the text, quote and backslash escaped
RECURSIVE Escape(_)
Escape(s) ==
    IF s = <<>> THEN <<>>
    ELSE (IF Head(s) = Quote \/ Head(s) = Backslash
          THEN <<Backslash, Head(s)>>
          ELSE <<Head(s)>>) \o Escape(Tail(s))

EncodeStr(s) == <<Quote>> \o Escape(s) \o <<Quote>>

\* json.dump of an int: an optional minus sign and the decimal digits
EncodeInt(n) == IF n < 0 THEN <<"-">> \o Digits(0 - n) ELSE Digits(n)

\* json.dump of a bool
EncodeBool(b) == IF b THEN <<"true">> ELSE <<"false">>

\* json.dump of one book dict: its members in insertion order
EncodeBook(book) ==
    << <<"title", EncodeStr(book.title)>>,
       <<"author", EncodeStr(book.author)>>,
       <<"year", EncodeInt(book.year)>>,
       <<"genre", EncodeStr(book.genre)>>,
       <<"read", EncodeBool(book.read)>>,
       <<"date_added", EncodeStr(book.date_added)>> >>

\* json.dump(self.library, ...): the document written for the whole list
JsonDump(lib) == [i \in 1..Len(lib) |-> EncodeBook(lib[i])]

\* json.load of a string body: a backslash makes the next character literal
RECURSIVE Unescape(_)
Unescape(s) ==
    IF s = <<>> THEN <<>>
    ELSE IF Head(s) = Backslash /\ Len(s) >= 2
         THEN <<s[2]>> \o Unescape(Tail(Tail(s)))
         ELSE <<Head(s)>> \o Unescape(Tail(s))

DecodeStr(lex) == Unescape(SubSeq(lex, 2, Len(lex) - 1))

DigitVal(c) == CHOOSE k \in 0..9 : DigitChars[k + 1] = c

RECURSIVE DecodeNat(_)
DecodeNat(ds) ==
    IF Len(ds) = 1 THEN DigitVal(ds[1])
    ELSE 10 * DecodeNat(SubSeq(ds, 1, Len(ds) - 1)) + DigitVal(ds[Len(ds)])

DecodeInt(lex) == IF Head(lex) = "-" THEN 0 - DecodeNat(Tail(lex)) ELSE DecodeNat(lex)

\* json.load of one value, by the first character of its lexeme
DecodeValue(lex) ==
    CASE Head(lex) = Quote -> DecodeStr(lex)
      [] Head(lex) = "true" -> TRUE
      [] Head(lex) = "false" -> FALSE
      [] OTHER -> DecodeInt(lex)

\* the value json.load stores under a key: the last member with that key
Member(obj, key) ==
    LET hits == {i \in 1..Len(obj) : obj[i][1] = key}
        last == CHOOSE i \in hits : \A j \in hits : j <= i
    IN  DecodeValue(obj[last][2])

DecodeBook(obj) ==
    [title |-> Member(obj, "title"), author |-> Member(obj, "author"),
     year |-> Member(obj, "year"), genre |-> Member(obj, "genre"),
     read |-> Member(obj, "read"), date_added |-> Member(obj, "date_added")]

\* json.load on a complete document
JsonLoad(doc) == [i \in 1..Len(doc) |-> DecodeBook(doc[i])]

\* -------------------------------------------------------------------- file
\* library.txt: absent, or present with a document that is complete JSON or
\* was cut short (which json.load rejects)
Absent == [exists |-> FALSE, complete |-> FALSE, doc |-> <<>>]

Written(doc) == [exists |-> TRUE, complete |-> TRUE, doc |-> doc]

Truncated(doc) == [exists |-> TRUE, complete |-> FALSE, doc |-> doc]

\* load_library that keeps what was parsed before the document broke off
load_library_KeepsParsed(lib, f) ==
    IF f.exists
    THEN IF f.complete
         THEN <<JsonLoad(f.doc), TRUE>>
         ELSE <<JsonLoad(f.doc), FALSE>>
    ELSE <<lib, FALSE>>

\* load_library: <<new list, return value>>
load_library(lib, f) ==
    IF f.exists
    THEN IF f.complete
         THEN <<JsonLoad(f.doc), TRUE>>
         ELSE <<lib, FALSE>>
    ELSE <<lib, FALSE>>

\* save_library that opens the file to append
save_library_Appends(lib, f, outcome) ==
    CASE outcome = "ok" -> <<Written(f.doc \o JsonDump(lib)), TRUE>>
      [] outcome = "open_fails" -> <<f, FALSE>>
      [] OTHER -> <<Truncated(SubSeq(JsonDump(lib), 1, Len(lib) - 1)), FALSE>>

\* save_library, by how the write goes: <<new file, return value>>
save_library(lib, f, outcome) ==
    CASE outcome = "ok" -> <<Written(JsonDump(lib)), TRUE>>
      [] outcome = "open_fails" -> <<f, FALSE>>
      [] OTHER -> <<Truncated(SubSeq(JsonDump(lib), 1, Len(lib) - 1)), FALSE>>

\* (a write that breaks off leaves the file cut short before its last record)
\* the ways a write can go while the failure budget lasts
SaveOutcomes == IF failures < MaxFailures THEN {"ok", "open_fails", "write_fails"} ELSE {"ok"}

\* __init__: an empty list, then load_library
Construct(f) == load_library(<<>>, f)

\* ------------------------------------------------------------------ inputs
\* add_book arguments tried by the store: <<title, author, year, genre, read>>
StoreInputs ==
    { << <<"a">>, <<"h">>, 1965, <<"s">>, TRUE >>,
      << <<"A", "b">>, <<"H", Quote>>, -1, <<"d">>, FALSE >>,
      << <<>>, <<>>, 2030, <<>>, FALSE >> }

\* add_book arguments tried with the queries
SearchInputs ==
    { << <<"a">>, <<"h">>, 1965, <<"s">>, TRUE >>,
      << <<"A", "b">>, <<"H", Quote>>, -1, <<"d">>, FALSE >> }

\* query texts tried by search_by_title and search_by_author
Queries == {<<>>, <<"A">>, <<"a", "B">>, <<"h">>, <<"c">>}

\* add_book arguments tried with the file
PersistInputs ==
    { << <<"A", Quote>>, <<>>, -1, <<"d">>, FALSE >>,
      << <<Backslash, "b">>, <<"h">>, 2030, <<Quote, Backslash>>, TRUE >> }

\* what the add form submits; number_input keeps the year in 0..current year
FormInputs ==
    { << <<"a">>, <<"h">>, 1965, <<"s">>, TRUE >>,
      << <<"a">>, <<"H">>, 2026, <<"s">>, FALSE >>,
      << <<"A", "b">>, <<"h">>, 0, <<"d">>, FALSE >>,
      << <<>>, <<"h">>, 1965, <<"s">>, TRUE >> }

\* the entries of the status filter
Statuses == {"All Books", "Read", "Unread"}

\* what the file holds before the program first runs
InitialBook == NewBook(<<"B">>, <<"h">>, 7, AllGenres, TRUE, Strftime([year |-> 2025, month |-> 1, day |-> 31]))

InitFiles == {Absent, Truncated(JsonDump(<<InitialBook>>)), Written(JsonDump(<<InitialBook>>))}

\* indexes tried by remove_book: one below and one above every valid range
Indexes == (0 - 1)..MaxBooks

\* ----------------------------------------------------------- store actions
Init ==
    \E f \in InitFiles :
        /\ file = f
        /\ library = Construct(f)[1]
        /\ today = 1
        /\ op = "__init__"
        /\ arg = <<>>
        /\ ret = Construct(f)[2]
        /\ results = NoResults
        /\ saved = "none"
        /\ lastSave = "none"
        /\ failures = 0

\* LibraryManager(): a fresh instance on the same file
NewManager ==
    /\ library' = Construct(file)[1]
    /\ op' = "__init__"
    /\ arg' = <<>>
    /\ ret' = Construct(file)[2]
    /\ results' = NoResults
    /\ saved' = "none"
    /\ UNCHANGED <<file, today, lastSave, failures>>

AddBook(inputs) ==
    /\ Len(library) < MaxBooks
    /\ \E i \in inputs :
        LET r == add_book(library, i[1], i[2], i[3], i[4], i[5], Strftime(Now))
        IN  /\ library' = r[1]
            /\ op' = "add_book"
            /\ arg' = i
            /\ ret' = r[2]
    /\ saved' = "none"
    /\ UNCHANGED <<file, today, results, lastSave, failures>>

RemoveBook ==
    /\ \E index \in Indexes :
        LET r == remove_book(library, index)
        IN  /\ library' = r[1]
            /\ op' = "remove_book"
            /\ arg' = index
            /\ ret' = <<r[2], r[3]>>
    /\ saved' = "none"
    /\ UNCHANGED <<file, today, results, lastSave, failures>>

GetStatistics ==
    /\ op' = "get_statistics"
    /\ arg' = <<>>
    /\ ret' = get_statistics(library)
    /\ saved' = "none"
    /\ UNCHANGED <<library, file, today, results, lastSave, failures>>

\* midnight passes
Tick ==
    /\ today < MaxDay
    /\ today' = today + 1
    /\ op' = "tick"
    /\ arg' = <<>>
    /\ ret' = <<>>
    /\ saved' = "none"
    /\ UNCHANGED <<library, file, results, lastSave, failures>>

SearchByTitle ==
    /\ \E q \in Queries :
        /\ results' = Held(search_by_title(library, q), "search_by_title", q)
        /\ arg' = q
    /\ op' = "search_by_title"
    /\ ret' = results'.val
    /\ saved' = "none"
    /\ UNCHANGED <<library, file, today, lastSave, failures>>

SearchByAuthor ==
    /\ \E q \in Queries :
        /\ results' = Held(search_by_author(library, q), "search_by_author", q)
        /\ arg' = q
    /\ op' = "search_by_author"
    /\ ret' = results'.val
    /\ saved' = "none"
    /\ UNCHANGED <<library, file, today, lastSave, failures>>

FilterByGenre ==
    /\ \E g \in {AllGenres} \cup get_all_genres(library) :
        /\ results' = Held(filter_by_genre(library, g), "filter_by_genre", g)
        /\ arg' = g
    /\ op' = "filter_by_genre"
    /\ ret' = results'.val
    /\ saved' = "none"
    /\ UNCHANGED <<library, file, today, lastSave, failures>>

\* ----------------------------------------------------- persistence actions
SaveLibrary ==
    /\ \E outcome \in SaveOutcomes :
        LET s == save_library(library, file, outcome)
        IN  /\ file' = s[1]
            /\ ret' = s[2]
            /\ saved' = IF s[2] THEN "ok" ELSE "fail"
            /\ lastSave' = IF s[2] THEN "ok" ELSE "fail"
            /\ failures' = IF s[2] THEN failures ELSE failures + 1
    /\ op' = "save_library"
    /\ arg' = <<>>
    /\ UNCHANGED <<library, today, results>>

LoadLibrary ==
    /\ library' = load_library(library, file)[1]
    /\ ret' = load_library(library, file)[2]
    /\ op' = "load_library"
    /\ arg' = library
    /\ saved' = "none"
    /\ UNCHANGED <<file, today, results, lastSave, failures>>

\* ------------------------------------------------------------ page actions
\* list.index(x): the zero-based position of the first equal element, or -1
\* where Python raises ValueError
ListIndex(seq, x) ==
    LET hits == {i \in 1..Len(seq) : seq[i] = x}
    IN  IF hits = {} THEN 0 - 1 ELSE (CHOOSE i \in hits : \A j \in hits : i <= j) - 1

\* "Apply filters": filter_by_genre, then the status filter
FilteredBooks(lib, selected_genre, selected_status) ==
    SelectSeq(filter_by_genre(lib, selected_genre).val,
              LAMBDA book : \/ selected_status = "All Books"
                            \/ (selected_status = "Read" /\ book.read)
                            \/ (selected_status = "Unread" /\ ~book.read))

BookTitles(filtered_books) == [i \in 1..Len(filtered_books) |-> filtered_books[i].title]

\* the remove button passing on the position in the filtered list
RemoveTarget_FilteredPosition(lib, filtered_books, book_to_remove) ==
    ListIndex(BookTitles(filtered_books), book_to_remove)

\* the position the remove button passes to remove_book (-1: a lookup raised)
RemoveTarget(lib, filtered_books, book_to_remove) ==
    LET index == ListIndex(BookTitles(filtered_books), book_to_remove)
    IN  IF index < 0 THEN 0 - 1 ELSE ListIndex(lib, filtered_books[index + 1])

\* the "Remove Selected Book" button, with the filters and the selection as set
RemoveClick ==
    \E g \in {AllGenres} \cup get_all_genres(library), st \in Statuses :
        LET filtered_books == FilteredBooks(library, g, st)
        IN  /\ filtered_books # <<>>
            /\ \E t \in {<<>>} \cup {filtered_books[i].title : i \in 1..Len(filtered_books)} :
                LET target == RemoveTarget(library, filtered_books, t)
                    r == remove_book(library, target)
                    called == t # <<>> /\ target >= 0
                    saves == called /\ r[2]
                IN  \E outcome \in (IF saves THEN SaveOutcomes ELSE {"ok"}) :
                    LET s == save_library(r[1], file, outcome)
                    IN
                    /\ op' = "remove_click"
                    /\ arg' = [genre |-> g, status |-> st, title |-> t]
                    /\ ret' = [pressed |-> t # <<>>, raised |-> t # <<>> /\ target < 0,
                               index |-> target,
                               success |-> called /\ r[2],
                               title |-> IF called THEN r[3] ELSE <<>>]
                    /\ library' = IF called THEN r[1] ELSE library
                    /\ file' = IF saves THEN s[1] ELSE file
                    /\ saved' = IF saves THEN (IF s[2] THEN "ok" ELSE "fail") ELSE "none"
                    /\ lastSave' = IF saves THEN (IF s[2] THEN "ok" ELSE "fail") ELSE lastSave
                    /\ failures' = IF saves /\ ~s[2] THEN failures + 1 ELSE failures
    /\ UNCHANGED <<today, results>>

\* the add form's check of the required fields
FormValid(title, author, genre) == title # <<>> /\ author # <<>> /\ genre # <<>>

\* the "Add Book" form, submitted
AddSubmit ==
    /\ \E i \in FormInputs :
        \E outcome \in (IF FormValid(i[1], i[2], i[4]) THEN SaveOutcomes ELSE {"ok"}) :
        LET valid == FormValid(i[1], i[2], i[4])
            r == add_book(library, i[1], i[2], i[3], i[4], i[5], Strftime(Now))
            s == save_library(r[1], file, outcome)
        IN  /\ valid => Len(library) < MaxBooks
            /\ op' = "add_submit"
            /\ arg' = i
            /\ ret' = [valid |-> valid]
            /\ library' = IF valid THEN r[1] ELSE library
            /\ file' = IF valid THEN s[1] ELSE file
            /\ saved' = IF valid THEN (IF s[2] THEN "ok" ELSE "fail") ELSE "none"
            /\ lastSave' = IF valid THEN (IF s[2] THEN "ok" ELSE "fail") ELSE lastSave
            /\ failures' = IF valid /\ ~s[2] THEN failures + 1 ELSE failures
    /\ UNCHANGED <<today, results>>

\* --------------------------------------------------------- specifications
Next ==
    \/ AddBook(StoreInputs)
    \/ RemoveBook
    \/ GetStatistics
    \/ Tick

Spec == Init /\ [][Next]_vars

\* the queries, on a catalog that changes under them
NextSearch ==
    \/ AddBook(SearchInputs)
    \/ RemoveBook
    \/ SearchByTitle
    \/ SearchByAuthor
    \/ FilterByGenre

SpecSearch == Init /\ [][NextSearch]_vars

\* the store and its file
NextPersist ==
    \/ AddBook(PersistInputs)
    \/ RemoveBook
    \/ SaveLibrary
    \/ LoadLibrary
    \/ NewManager

SpecPersist == Init /\ [][NextPersist]_vars

\* the page: the only writers are the add form and the remove button
NextPage ==
    \/ AddSubmit
    \/ RemoveClick

SpecPage == Init /\ [][NextPage]_vars


\* ------------------------------------------------- properties of the store
\* the value of a float or of a product of one, as a dyadic number, compared
DyadicLeq(x, y) ==
    LET low == IF x.e < y.e THEN x.e ELSE y.e
    IN  \A a \in {ShiftLeft(x.m, x.e - low)}, b \in {ShiftLeft(y.m, y.e - low)} : BitsLeq(a, b)

ReadCount(lib) == Cardinality({i \in 1..Len(lib) : lib[i].read})

\* C1: remove_book(i) with 0 <= i < length returns (True, title of the record
\* at position i), shortens the collection by exactly one, keeps the records
\* before i in place and moves each record after i down by one, unchanged.
C1_RemoveInRange ==
    [][(op' = "remove_book" /\ 0 <= arg' /\ arg' < Len(library)) =>
        /\ ret' = <<TRUE, library[arg' + 1].title>>
        /\ Len(library') = Len(library) - 1
        /\ \A j \in 1..Len(library') :
            library'[j] = IF j <= arg' THEN library[j] ELSE library[j + 1]]_vars

\* a record was removed from the middle: records stay before it and after it
C1_Witness ==
    /\ op = "remove_book"
    /\ ret[1]
    /\ arg >= 1
    /\ arg < Len(library)

\* C2: remove_book(i) with i < 0 or i >= length (any index on an empty
\* catalog included) returns (False, "") and leaves the collection as it was.
C2_RemoveOutOfRange ==
    [][(op' = "remove_book" /\ (arg' < 0 \/ arg' >= Len(library))) =>
        /\ ret' = <<FALSE, <<>>>>
        /\ library' = library]_vars

\* a negative index was refused on a catalog that holds records
C2_Witness ==
    /\ op = "remove_book"
    /\ ~ret[1]
    /\ arg < 0
    /\ Len(library) >= 2

\* the counts of a get_statistics result, against the collection
CountsRight(stats, lib) ==
    /\ stats.total = Len(lib)
    /\ stats.read = ReadCount(lib)
    /\ stats.unread = stats.total - stats.read
    /\ stats.read + stats.unread = stats.total
    /\ stats.read >= 0 /\ stats.unread >= 0
    /\ stats.total = 0 => stats.percentage = Normal(<<>>, 0)

\* percentage * total = 100 * read, exactly
ExactPercentage(stats) ==
    Normal(MulSmall(stats.percentage.m, stats.total), stats.percentage.e)
        = Normal(NatBits(100 * stats.read), 0)

\* percentage * total within one part in 2^51 of 100 * read
RoundedPercentage(stats) ==
    LET scaled == Normal(MulSmall(stats.percentage.m, stats.total), stats.percentage.e + 51)
        below == Normal(MulSmall([i \in 1..51 |-> 1], 100 * stats.read), 0)
        above == Normal(MulSmall([i \in 1..52 |-> IF i = 1 \/ i = 52 THEN 1 ELSE 0],
                                 100 * stats.read), 0)
    IN  \A lo \in {below}, mid \in {scaled}, hi \in {above} :
            DyadicLeq(lo, mid) /\ DyadicLeq(mid, hi)

\* C7 as stated: get_statistics returns total = length, read = number of read
\* records, unread = total - read, percentage = 0 on an empty collection and
\* otherwise percentage * total = 100 * read exactly (so 0 <= percentage <= 100);
\* the collection is not modified.
C7_ExactPercentage ==
    [][op' = "get_statistics" =>
        \A stats \in {ret'} :
            /\ library' = library
            /\ CountsRight(stats, library)
            /\ DyadicLeq(stats.percentage, Normal(NatBits(100), 0))
            /\ stats.total > 0 => ExactPercentage(stats)]_vars

\* C7 as amended: the same counts, 0 <= percentage <= 100, and percentage *
\* total within one part in 2^51 of 100 * read (the rounding of the double
\* division and multiplication) in place of the exact equality.
C7_RoundedPercentage ==
    [][op' = "get_statistics" =>
        \A stats \in {ret'} :
            /\ library' = library
            /\ CountsRight(stats, library)
            /\ DyadicLeq(stats.percentage, Normal(NatBits(100), 0))
            /\ stats.total > 0 => RoundedPercentage(stats)]_vars

\* statistics of three records of which one is read: 100/3 is no double
C7_Witness ==
    /\ op = "get_statistics"
    /\ ret.total = 3
    /\ ret.read = 1

\* C9: add_book takes any input (empty text, negative or future year), makes
\* the collection one longer, puts the new record with the given field values
\* and today's date last, returns it, and leaves every earlier record in place.
C9_AddAppends ==
    [][op' = "add_book" =>
        /\ Len(library') = Len(library) + 1
        /\ library'[Len(library')] = ret'
        /\ ret' = [title |-> arg'[1], author |-> arg'[2], year |-> arg'[3],
                   genre |-> arg'[4], read |-> arg'[5], date_added |-> Strftime(Now)]
        /\ SubSeq(library', 1, Len(library)) = library]_vars

\* a record with empty texts and a future year was added a second time and
\* stands after its equal
C9_Witness ==
    /\ op = "add_book"
    /\ arg[1] = <<>>
    /\ arg[3] > Now.year
    /\ Len(library) >= 2
    /\ library[Len(library) - 1] = library[Len(library)]

\* ----------------------------------------------- properties of the queries
\* two characters that are the same letter, whatever their case
SameLetter(c, d) == c = d \/ <<c, d>> \in {<<"a", "A">>, <<"A", "a">>, <<"b", "B">>, <<"B", "b">>}

\* text contains query as a substring, case ignored
ContainsIgnoringCase(text, query) ==
    \E k \in 0..(Len(text) - Len(query)) :
        \A i \in 1..Len(query) : SameLetter(text[k + i], query[i])

\* the records of lib at the positions in at, in their order
Picked(lib, at) ==
    [k \in 1..Cardinality(at) |-> lib[CHOOSE i \in at : Cardinality({j \in at : j <= i}) = k]]

FailedLoad == load_library(<<>>, Truncated(<<>>))[2]

Malformed(f) == f.exists /\ ~f.complete

\* C3: a save_library that returns True, followed by a fresh LibraryManager
\* on the same file, gives a collection equal to the saved one: same length,
\* same order, every field of every record equal.
C3_RoundTrip ==
    [][(op = "save_library" /\ ret = TRUE /\ op' = "__init__") =>
        /\ Len(library') = Len(library)
        /\ \A i \in 1..Len(library) :
            /\ library'[i].title = library[i].title
            /\ library'[i].author = library[i].author
            /\ library'[i].year = library[i].year
            /\ library'[i].genre = library[i].genre
            /\ library'[i].read = library[i].read
            /\ library'[i].date_added = library[i].date_added]_vars

\* a fresh instance loaded two records, one with a backslash in its title and
\* one with a negative year
C3_Witness ==
    /\ op = "__init__"
    /\ ret = TRUE
    /\ lastSave = "ok"
    /\ Len(library) >= 2
    /\ \E i \in 1..Len(library) : Backslash \in {library[i].title[k] : k \in 1..Len(library[i].title)}
    /\ \E i \in 1..Len(library) : library[i].year < 0

\* C5: with no file, load_library (called by the constructor) leaves the
\* collection empty and returns a value other than the one it returns when an
\* existing file fails to load.
C5_AbsenceIsNotFailure ==
    (op = "__init__" /\ ~file.exists) =>
        /\ library = <<>>
        /\ ret # FailedLoad

\* C6 as stated: on a malformed file load_library returns False and the
\* collection is empty afterwards, whatever it held before the call.
C6_EmptyAfterFailedLoad ==
    (op \in {"__init__", "load_library"} /\ Malformed(file)) =>
        /\ ret = FALSE
        /\ library = <<>>

\* C6 as amended: on a malformed file load_library returns False and leaves
\* the collection as it was before the call, with nothing of the file in it;
\* so it is empty when the constructor made the call, and otherwise holds what
\* it held.
C6_UnchangedAfterFailedLoad ==
    /\ (op = "__init__" /\ Malformed(file)) => (ret = FALSE /\ library = <<>>)
    /\ (op = "load_library" /\ Malformed(file)) => (ret = FALSE /\ library = arg)

\* load_library failed on a file cut short after a record, called on a
\* collection that holds a different record
C6_Witness ==
    /\ op = "load_library"
    /\ Malformed(file)
    /\ file.doc # <<>>
    /\ library # <<>>
    /\ JsonLoad(file.doc) # library

\* ------------------------------------------------- properties of the page
\* what a fresh instance would read from the file
Stored(f) == Construct(f)[1]

\* C4: every change the add form or the remove button makes to the collection
\* is followed by a save_library call in the same handler; a save that
\* returns True leaves the file equal to the collection, however many saves
\* failed before; the file and the collection differ only from a failed save
\* to the next successful one.
C4_SaveAfterMutation ==
    [][/\ library' # library => saved' \in {"ok", "fail"}
       /\ saved' = "ok" => file' = Written(JsonDump(library'))
       /\ Stored(file') # library' => lastSave' = "fail"]_vars

\* a save succeeded after an earlier one had failed, and the file holds the
\* collection
C4_Witness ==
    /\ saved = "ok"
    /\ failures >= 1
    /\ library # <<>>
    /\ file = Written(JsonDump(library))

\* C10: when the remove button is pressed with a title selected, no lookup
\* raises, the index passed to remove_book is in range, exactly one record is
\* removed, and that record has the selected title and passes the genre and
\* status filters in force (so a record the list does not show is never
\* removed).
C10_RemoveFlow ==
    [][(op' = "remove_click" /\ ret'.pressed) =>
        /\ ~ret'.raised
        /\ 0 <= ret'.index /\ ret'.index < Len(library)
        /\ ret'.success
        /\ ret'.title = arg'.title
        /\ library' = Pop(library, ret'.index)
        /\ \A removed \in {library[ret'.index + 1]} :
            /\ removed.title = arg'.title
            /\ arg'.genre = AllGenres \/ removed.genre = arg'.genre
            /\ arg'.status = "Read" => removed.read
            /\ arg'.status = "Unread" => ~removed.read]_vars

\* a record was removed through both filters, not from the head of the
\* collection, while another record of the same title stays
C10_Witness ==
    /\ op = "remove_click"
    /\ ret.success
    /\ ret.index >= 1
    /\ arg.genre # AllGenres
    /\ arg.status # "All Books"
    /\ \E i \in 1..Len(library) : library[i].title = arg.title

====
